---- MODULE Spec2Model ----
(***************************************************************************)
(* A model of pandas' SparseDtype (pandas/core/arrays/sparse/dtype.py) and *)
(* of the frozen containers FrozenList and FrozenNDArray                   *)
(* (pandas/core/indexes/frozen.py).                                        *)
(*                                                                         *)
(* Python values are records.  A scalar is [t, na, v]: its Python type, is *)
(* it a missing-value sentinel, and its numeric value.  Text is a sequence *)
(* of one-character strings, so that formatting and parsing are computed   *)
(* and not assumed to be inverse to each other.                            *)
(***************************************************************************)
EXTENDS Integers, Sequences, FiniteSets, TLC

VARIABLES a, b, r,          \* two names bound to SparseDtype instances, last result
          fls, x, lr,       \* heap of FrozenList objects, the name x, last result
          store, arrs, ar   \* array buffers, array objects, last result

vars == <<a, b, r, fls, x, lr, store, arrs, ar>>
dtypeVars == <<a, b, r>>
listVars == <<fls, x, lr>>
arrVars == <<store, arrs, ar>>

(***************************************************************************)
(* Bounds of the model.                                                    *)
(***************************************************************************)
\* numeric fill values range over 0..MaxFill
MaxFill == 1
\* the heap holds at most MaxLists FrozenList objects
MaxLists == 2
\* repeat counts range over 0..MaxRepeat
MaxRepeat == 2
\* the heap holds at most MaxArrs array objects
MaxArrs == 3

(***************************************************************************)
(* Python scalars.                                                         *)
(***************************************************************************)
Scalar(t, na, v) == [t |-> t, na |-> na, v |-> v]
NaN == Scalar("float", TRUE, 0)
NaT == Scalar("NaTType", TRUE, 0)
None == Scalar("NoneType", TRUE, 0)
PyFloat(n) == Scalar("float", FALSE, n)
PyInt(n) == Scalar("int", FALSE, n)
PyBool(n) == Scalar("bool", FALSE, n)
\* a value that is not a scalar: the list [0]
ListValue == Scalar("list", FALSE, 0)

FillValues ==
    {NaN, NaT, PyBool(0), PyBool(1)}
        \cup {PyFloat(n) : n \in 0..MaxFill} \cup {PyInt(n) : n \in 0..MaxFill}
\* what a caller may pass as fill_value
FillInputs == FillValues \cup {None, ListValue}

\* pandas.core.dtypes.missing.isna on a scalar
isna(v) == v.na
\* pandas.core.dtypes.common.is_scalar
is_scalar(v) == v.t # "list"
\* isinstance(u, type(v)): bool is a subclass of int
isinstance_of_type(u, v) == u.t = v.t \/ (u.t = "bool" /\ v.t = "int")
\* Python's u == v on scalars: numbers compare by value, NaN and NaT equal nothing
PyEq(u, v) ==
    /\ ~u.na /\ ~v.na
    /\ u.t \in {"float", "int", "bool"} /\ v.t \in {"float", "int", "bool"}
    /\ u.v = v.v
\* Python's hash of a scalar: equal numbers hash equal, hash(nan) is 0
PyHash(v) ==
    IF v.t = "NaTType" THEN 0 - 1
    ELSE IF v.na THEN 0
    ELSE v.v

(***************************************************************************)
(* Text.                                                                   *)
(***************************************************************************)
C_Sparse == <<"S", "p", "a", "r", "s", "e">>
C_float64 == <<"f", "l", "o", "a", "t", "6", "4">>
C_float == <<"f", "l", "o", "a", "t">>
C_int64 == <<"i", "n", "t", "6", "4">>
C_int == <<"i", "n", "t">>
C_bool == <<"b", "o", "o", "l">>
C_object == <<"o", "b", "j", "e", "c", "t">>
C_str == <<"s", "t", "r">>
C_datetime64ns == <<"d", "a", "t", "e", "t", "i", "m", "e", "6", "4", "[", "n", "s", "]">>
C_foo == <<"f", "o", "o">>
C_nan == <<"n", "a", "n">>
C_NaT == <<"N", "a", "T">>
C_None == <<"N", "o", "n", "e">>
C_False == <<"F", "a", "l", "s", "e">>
C_True == <<"T", "r", "u", "e">>
DigitChars == <<"0", "1", "2", "3", "4", "5", "6", "7", "8", "9">>

RECURSIVE Digits(_)
Digits(n) == IF n < 10 THEN <<DigitChars[n + 1]>>
             ELSE Digits(n \div 10) \o <<DigitChars[(n % 10) + 1]>>

\* str(v), as "{}".format(v) computes it
FormatScalar(v) ==
    CASE v.t = "float" /\ v.na -> C_nan
      [] v.t = "float" /\ ~v.na -> Digits(v.v) \o <<".", "0">>
      [] v.t = "int" -> Digits(v.v)
      [] v.t = "bool" -> IF v.v = 0 THEN C_False ELSE C_True
      [] v.t = "NaTType" -> C_NaT
      [] v.t = "NoneType" -> C_None
      [] OTHER -> <<"[", "0", "]">>

StartsWith(s, p) == Len(s) >= Len(p) /\ SubSeq(s, 1, Len(p)) = p

(***************************************************************************)
(* numpy dtypes and the helpers of pandas.core.dtypes.                     *)
(***************************************************************************)
\* the numpy dtypes of the model, by name; "str" is numpy's unicode dtype
NumpyDtypes == {"float64", "int64", "bool", "object", "str", "datetime64[ns]"}
\* numpy.dtype.name
DtypeName(dt) ==
    CASE dt = "float64" -> C_float64
      [] dt = "int64" -> C_int64
      [] dt = "bool" -> C_bool
      [] dt = "object" -> C_object
      [] dt = "str" -> C_str
      [] dt = "datetime64[ns]" -> C_datetime64ns
      [] OTHER -> <<>>
\* the type names pandas_dtype understands, canonical names and aliases
KnownNames == {C_float64, C_float, C_int64, C_int, C_bool, C_object, C_str, C_datetime64ns}
\* numpy.dtype(name); "TypeError" when numpy does not understand the name
np_dtype(s) ==
    CASE s = C_float64 \/ s = C_float -> "float64"
      [] s = C_int64 \/ s = C_int -> "int64"
      [] s = C_bool -> "bool"
      [] s = C_object -> "object"
      [] s = C_str -> "str"
      [] s = C_datetime64ns -> "datetime64[ns]"
      [] OTHER -> "TypeError"
is_string_dtype(dt) == dt \in {"object", "str"}
\* the default fill value of a subtype
na_value_for_dtype(dt) ==
    CASE dt = "float64" -> NaN
      [] dt = "int64" -> PyInt(0)
      [] dt = "bool" -> PyBool(0)
      [] dt = "datetime64[ns]" -> NaT
      [] OTHER -> NaN

(***************************************************************************)
(* SparseDtype.                                                            *)
(***************************************************************************)
\* an instance: its _dtype (a numpy dtype) and its _fill_value
Instance(dt, fv) == [subtype |-> dt, fill_value |-> fv]
\* what an unbound name holds
NoDtype == Instance("none", None)

\* what callers pass as a dtype: a type name, a numpy dtype or a SparseDtype
NameArg(s) == [kind |-> "name", s |-> s, np |-> "none", d |-> NoDtype]
NpArg(dt) == [kind |-> "np", s |-> <<>>, np |-> dt, d |-> NoDtype]
SparseArg(d) == [kind |-> "SparseDtype", s |-> <<>>, np |-> "none", d |-> d]
NotUnderstood == [kind |-> "TypeError", s |-> <<>>, np |-> "none", d |-> NoDtype]

\* pandas_dtype: an extension dtype or a numpy dtype is returned as it is, a
\* name is resolved by numpy
pandas_dtype(dtype) ==
    IF dtype.kind \in {"SparseDtype", "np"} THEN dtype
    ELSE IF np_dtype(dtype.s) = "TypeError" THEN NotUnderstood
    ELSE NpArg(np_dtype(dtype.s))

\* the outcome of a call: the instance returned, or the exception raised
Ok(d) == [ok |-> TRUE, exc |-> "none", msg |-> "", d |-> d]
Raise(exc, msg) == [ok |-> FALSE, exc |-> exc, msg |-> msg, d |-> NoDtype]
NoResult == [ok |-> FALSE, exc |-> "none", msg |-> "", d |-> NoDtype]

\* __init__ without the collapse of string dtypes to object
SparseDtype_init_no_collapse(dtype, fill_value) ==
    LET fv1 == IF dtype.kind = "SparseDtype" /\ fill_value = None
               THEN dtype.d.fill_value ELSE fill_value
        dt1 == IF dtype.kind = "SparseDtype" THEN NpArg(dtype.d.subtype) ELSE dtype
        dt2 == pandas_dtype(dt1)
    IN  IF dt2.kind = "TypeError" THEN Raise("TypeError", "data type not understood")
        ELSE LET fv2 == IF fv1 = None THEN na_value_for_dtype(dt2.np) ELSE fv1
             IN  IF ~is_scalar(fv2)
                 THEN Raise("ValueError", "fill_value must be a scalar")
                 ELSE Ok(Instance(dt2.np, fv2))

\* SparseDtype.__init__
SparseDtype_init(dtype, fill_value) ==
    LET fv1 == IF dtype.kind = "SparseDtype" /\ fill_value = None
               THEN dtype.d.fill_value ELSE fill_value
        dt1 == IF dtype.kind = "SparseDtype" THEN NpArg(dtype.d.subtype) ELSE dtype
        dt2 == pandas_dtype(dt1)
    IN  IF dt2.kind = "TypeError" THEN Raise("TypeError", "data type not understood")
        ELSE LET dt3 == IF is_string_dtype(dt2.np) THEN "object" ELSE dt2.np
                 fv2 == IF fv1 = None THEN na_value_for_dtype(dt3) ELSE fv1
             IN  IF ~is_scalar(fv2)
                 THEN Raise("ValueError", "fill_value must be a scalar")
                 ELSE Ok(Instance(dt3, fv2))

\* SparseDtype._is_na_fill_value
is_na_fill_value(self) == isna(self.fill_value)

\* SparseDtype.__eq__ on two instances; Python's `A and B or C` is (A and B) or C
SparseDtype_eq(self, other) ==
    LET subtype == self.subtype = other.subtype
        fill_value ==
            IF is_na_fill_value(self)
            THEN \/ /\ is_na_fill_value(other)
                    /\ isinstance_of_type(self.fill_value, other.fill_value)
                 \/ isinstance_of_type(other.fill_value, self.fill_value)
            ELSE PyEq(self.fill_value, other.fill_value)
    IN  subtype /\ fill_value

\* SparseDtype._metadata: the attributes that identify an instance
metadata(self) == <<self.subtype, self.fill_value, is_na_fill_value(self)>>
\* ExtensionDtype.__hash__: the hash of the tuple of the _metadata attributes,
\* a function of its elements' hashes
ExtensionDtype_hash(self) ==
    <<metadata(self)[1], PyHash(metadata(self)[2]), metadata(self)[3]>>
\* SparseDtype.__hash__
SparseDtype_hash(self) == ExtensionDtype_hash(self)

\* SparseDtype.name; __repr__ and so str() return it
name(self) ==
    C_Sparse \o <<"[">> \o DtypeName(self.subtype) \o <<",", " ">>
        \o FormatScalar(self.fill_value) \o <<"]">>

\* the first position of a comma in s, Len(s) + 1 when there is none
FirstComma(s) ==
    IF \E i \in 1..Len(s) : s[i] = ","
    THEN CHOOSE i \in 1..Len(s) : s[i] = "," /\ \A j \in 1..(i - 1) : s[j] # ","
    ELSE Len(s) + 1

\* _parse_subtype with the subtype group [^],]*: the subtype ends at the first
\* bracket or comma
parse_subtype_to_bracket(dtype) ==
    LET open == C_Sparse \o <<"[">>
        m == StartsWith(dtype, open) /\ Len(dtype) > Len(open) /\ dtype[Len(dtype)] = "]"
        body == SubSeq(dtype, Len(open) + 1, Len(dtype) - 1)
        stops == {i \in 1..Len(body) : body[i] \in {",", "]"}}
        k == IF stops = {} THEN Len(body) + 1
             ELSE CHOOSE i \in stops : \A j \in stops : i <= j
        rest == SubSeq(body, k, Len(body))
        fill == IF StartsWith(rest, <<",", " ">>) THEN SubSeq(rest, 3, Len(rest)) ELSE rest
    IN  IF m THEN [ok |-> TRUE, subtype |-> SubSeq(body, 1, k - 1), has_fill_value |-> fill # <<>>]
        ELSE IF dtype = C_Sparse THEN [ok |-> TRUE, subtype |-> C_float64, has_fill_value |-> FALSE]
        ELSE [ok |-> FALSE, subtype |-> <<>>, has_fill_value |-> FALSE]

\* SparseDtype._parse_subtype: the match of
\*   Sparse\[(?P<subtype>[^,]*)(, )?(?P<fill_value>.*?)?\]$
\* the subtype is the text up to the first comma, the fill value what follows
\* the optional ", " up to the closing bracket that ends the string
parse_subtype(dtype) ==
    LET open == C_Sparse \o <<"[">>
        m == StartsWith(dtype, open) /\ Len(dtype) > Len(open) /\ dtype[Len(dtype)] = "]"
        body == SubSeq(dtype, Len(open) + 1, Len(dtype) - 1)
        k == FirstComma(body)
        rest == SubSeq(body, k, Len(body))
        fill == IF StartsWith(rest, <<",", " ">>) THEN SubSeq(rest, 3, Len(rest)) ELSE rest
    IN  IF m THEN [ok |-> TRUE, subtype |-> SubSeq(body, 1, k - 1), has_fill_value |-> fill # <<>>]
        ELSE IF dtype = C_Sparse THEN [ok |-> TRUE, subtype |-> C_float64, has_fill_value |-> FALSE]
        ELSE [ok |-> FALSE, subtype |-> <<>>, has_fill_value |-> FALSE]

\* SparseDtype.construct_from_string
construct_from_string(string) ==
    IF StartsWith(string, C_Sparse)
    THEN LET p == parse_subtype(string)
             result == SparseDtype_init(NameArg(p.subtype), None)
         IN  IF ~p.ok THEN Raise("TypeError", "Could not construct SparseDtype")
             ELSE IF ~result.ok THEN result
             ELSE IF p.has_fill_value /\ name(result.d) # string
             THEN Raise("TypeError", "fill_value in the string is not the default")
             ELSE result
    ELSE Raise("TypeError", "Could not construct SparseDtype")

\* the fill values and targets whose conversion the model covers: numeric
\* scalars into the numeric and object numpy dtypes
CastDomain(fv, dt) ==
    fv.t \in {"float", "int", "bool"} /\ dt \in {"float64", "int64", "bool", "object"}
\* astype_nansafe(np.array(fill_value), dtype).item() on CastDomain: the value
\* converted, or no value when astype_nansafe raises (a non-finite float into
\* an integer dtype)
astype_nansafe_item(fv, dt) ==
    CASE dt = "object" -> [ok |-> TRUE, v |-> fv]
      [] dt = "float64" -> [ok |-> TRUE, v |-> IF fv.na THEN NaN ELSE PyFloat(fv.v)]
      [] dt = "int64" ->
            IF fv.na THEN [ok |-> FALSE, v |-> None] ELSE [ok |-> TRUE, v |-> PyInt(fv.v)]
      [] dt = "bool" ->
            [ok |-> TRUE, v |-> IF fv.na \/ fv.v # 0 THEN PyBool(1) ELSE PyBool(0)]

\* update_dtype that converts the fill value whatever the argument is, so that
\* a SparseDtype argument loses its own fill value
update_dtype_always_converts(self, dtype) ==
    LET dt == pandas_dtype(dtype)
        np == IF dt.kind = "SparseDtype" THEN dt.d.subtype ELSE dt.np
        fill_value == IF CastDomain(self.fill_value, np)
                      THEN astype_nansafe_item(self.fill_value, np)
                      ELSE [ok |-> TRUE, v |-> self.fill_value]
    IN  IF dt.kind = "TypeError" THEN Raise("TypeError", "data type not understood")
        ELSE IF ~fill_value.ok
        THEN Raise("ValueError", "Cannot convert non-finite values (NA or inf) to integer")
        ELSE SparseDtype_init(dt, fill_value.v)

\* SparseDtype.update_dtype
update_dtype(self, dtype) ==
    LET dt == pandas_dtype(dtype)
        fill_value == astype_nansafe_item(self.fill_value, dt.np)
    IN  IF dt.kind = "TypeError" THEN Raise("TypeError", "data type not understood")
        ELSE IF dt.kind = "SparseDtype" THEN Ok(dt.d)
        ELSE IF ~fill_value.ok
        THEN Raise("ValueError", "Cannot convert non-finite values (NA or inf) to integer")
        ELSE SparseDtype_init(dt, fill_value.v)

(***************************************************************************)
(* The SparseDtype operations as steps.  The names a and b are bound to    *)
(* instances; r records the last call and its outcome.                     *)
(***************************************************************************)
Slots == {"a", "b"}
Bound(slot) == IF slot = "a" THEN a ELSE b
IsBound(slot) == Bound(slot) # NoDtype

NoArg == NameArg(<<>>)
Call(op, slot, other, arg, fill, s, out, val, h) ==
    [op |-> op, slot |-> slot, other |-> other, arg |-> arg, fill |-> fill,
     s |-> s, out |-> out, val |-> val, h |-> h]
NoCall == Call("none", "a", "a", NoArg, None, <<>>, NoResult, FALSE, <<>>)

\* the dtype arguments of the constructor: names, understood or not, and the
\* instance the name a holds
NameInputs == KnownNames \cup {C_foo}
DtypeInputs ==
    {NameArg(n) : n \in NameInputs} \cup {SparseArg(Bound(s)) : s \in {t \in {"a"} : IsBound(t)}}
\* the canonical names of three subtypes, for the instances that are compared
EqDtypeInputs == {NameArg(n) : n \in {C_float64, C_int64, C_datetime64ns}}

\* the arguments of update_dtype: names, and instances built in the call, as
\* in d.update_dtype(SparseDtype(float, np.nan))
UpdateInputs ==
    {NameArg(n) : n \in NameInputs}
        \cup {SparseArg(Instance("float64", NaN)), SparseArg(Instance("int64", PyInt(MaxFill)))}

\* the strings handed to construct_from_string
SubtypeTexts == NameInputs \cup {<<>>}
FillTexts == {FormatScalar(v) : v \in FillValues} \cup {<<>>}
WithFill(n, sep, f) == C_Sparse \o <<"[">> \o n \o sep \o f \o <<"]">>
StringInputs ==
    {C_Sparse, C_int64, C_Sparse \o <<"X">>, C_Sparse \o <<"[">> \o C_int64}
        \cup {C_Sparse \o <<"[">> \o n \o <<"]">> : n \in SubtypeTexts}
        \cup {WithFill(n, <<",", " ">>, f) : n \in SubtypeTexts, f \in FillTexts}
        \cup {WithFill(n, <<",">>, f) : n \in {C_int64, C_int}, f \in FillTexts}
\* a few of them, one of each form
FewStrings ==
    {C_Sparse, C_int64, C_Sparse \o <<"[">> \o C_str \o <<"]">>,
     C_Sparse \o <<"[">> \o C_foo \o <<"]">>,
     WithFill(C_int64, <<",", " ">>, <<"0">>), WithFill(C_int64, <<",", " ">>, <<"1">>)}

InitDtype == a = NoDtype /\ b = NoDtype /\ r = NoCall

\* slot = SparseDtype(dtype, fill_value): the name is bound only when
\* the constructor returns
Construct(slot, dtype, fill_value) ==
    LET out == SparseDtype_init(dtype, fill_value)
    IN  /\ a' = IF out.ok /\ slot = "a" THEN out.d ELSE a
        /\ b' = IF out.ok /\ slot = "b" THEN out.d ELSE b
        /\ r' = Call("init", slot, slot, dtype, fill_value, <<>>, out, FALSE, <<>>)

\* slot == other
EqOp(slot, other) ==
    /\ IsBound(slot) /\ IsBound(other)
    /\ r' = Call("eq", slot, other, NoArg, None, <<>>, NoResult,
                 SparseDtype_eq(Bound(slot), Bound(other)), <<>>)
    /\ UNCHANGED <<a, b>>

\* hash(slot)
HashOp(slot) ==
    /\ IsBound(slot)
    /\ r' = Call("hash", slot, slot, NoArg, None, <<>>, NoResult, FALSE,
                 SparseDtype_hash(Bound(slot)))
    /\ UNCHANGED <<a, b>>

\* SparseDtype.construct_from_string(s)
FromString(s) ==
    /\ r' = Call("construct_from_string", "a", "a", NoArg, None, s,
                 construct_from_string(s), FALSE, <<>>)
    /\ UNCHANGED <<a, b>>

\* SparseDtype.construct_from_string(slot.name)
FromName(slot) ==
    /\ IsBound(slot)
    /\ r' = Call("from_name", slot, slot, NoArg, None, name(Bound(slot)),
                 construct_from_string(name(Bound(slot))), FALSE, <<>>)
    /\ UNCHANGED <<a, b>>

\* slot.update_dtype(dtype)
UpdateDtype(slot, dtype) ==
    /\ IsBound(slot)
    /\ dtype.kind = "name" /\ np_dtype(dtype.s) # "TypeError"
            => CastDomain(Bound(slot).fill_value, np_dtype(dtype.s))
    /\ r' = Call("update_dtype", slot, slot, dtype, None, <<>>,
                 update_dtype(Bound(slot), dtype), FALSE, <<>>)
    /\ UNCHANGED <<a, b>>

(***************************************************************************)
(* FrozenList.  fls is the heap of FrozenList objects, each with its       *)
(* elements and the elements it was constructed with; x is the object the  *)
(* name x is bound to (0: none); lr records the last call.                 *)
(***************************************************************************)
Elems == {1, 2}
\* the sequences lists are built from and the operands of union
ListData == {<<>>, <<1>>, <<2, 1>>}
OperandKinds == {"list", "tuple", "FrozenList", "range"}
Operand(kind, elems) == [kind |-> kind, elems |-> elems]
Operands == {Operand(k, e) : k \in OperandKinds, e \in {<<>>, <<2>>}}
NoOperand == Operand("list", <<>>)
Repeats == 0..MaxRepeat

\* the methods FrozenList disables
DisabledMethods ==
    {"__setitem__", "__setslice__", "__delitem__", "__delslice__",
     "pop", "append", "extend", "remove", "sort", "insert"}

ListResult(exc, elems) == [exc |-> exc, elems |-> elems]

RECURSIVE Repeat(_, _)
Repeat(s, n) == IF n <= 0 THEN <<>> ELSE s \o Repeat(s, n - 1)

\* list.__add__(self, other): other must be a list (a FrozenList is one)
list_add(self, other) ==
    IF other.kind \in {"list", "FrozenList"}
    THEN ListResult("none", self \o other.elems)
    ELSE ListResult("TypeError", <<>>)

\* FrozenList.union, also __add__ and __iadd__: the elements of the new FrozenList
union(self, other) ==
    list_add(self, IF other.kind = "tuple" THEN Operand("list", other.elems) ELSE other)

\* FrozenList.__mul__, also __imul__: the elements of the new FrozenList
FrozenList_mul(self, n) == ListResult("none", Repeat(self, n))

\* the list method a disabled name would otherwise be, with arguments 0 and v
\* where it takes an index and a value
list_method(self, method, v) ==
    CASE method \in {"append", "extend"} -> ListResult("none", Append(self, v))
      [] method = "insert" -> ListResult("none", <<v>> \o self)
      [] method \in {"pop", "__delitem__", "__delslice__"} ->
            IF self = <<>> THEN ListResult("IndexError", self)
            ELSE ListResult("none", Tail(self))
      [] method \in {"__setitem__", "__setslice__"} ->
            IF self = <<>> THEN ListResult("IndexError", self)
            ELSE ListResult("none", <<v>> \o Tail(self))
      [] method = "remove" ->
            IF \E i \in 1..Len(self) : self[i] = v
            THEN LET k == CHOOSE i \in 1..Len(self) :
                              self[i] = v /\ \A j \in 1..(i - 1) : self[j] # v
                 IN  ListResult("none", SubSeq(self, 1, k - 1) \o SubSeq(self, k + 1, Len(self)))
            ELSE ListResult("ValueError", self)
      [] OTHER -> ListResult("none", self)

\* FrozenList._disabled, the method every disabled name is bound to: it raises
\* whatever the arguments are and leaves the elements alone
FrozenList_disabled(self, method, v) == ListResult("TypeError", self)

ListCall(op, exc, self, other, n, out) ==
    [op |-> op, exc |-> exc, self |-> self, other |-> other, n |-> n, out |-> out]
NoListCall == ListCall("none", "none", 0, NoOperand, 0, 0)

InitList == fls = <<>> /\ x = 0 /\ lr = NoListCall

Object(elems) == [elems |-> elems, init |-> elems]

\* x = FrozenList(data)
NewFrozenList(data) ==
    /\ Len(fls) < MaxLists
    /\ fls' = Append(fls, Object(data))
    /\ x' = Len(fls) + 1
    /\ lr' = ListCall("FrozenList", "none", 0, NoOperand, 0, Len(fls) + 1)

\* a call on x that returns a new FrozenList or raises; rebind says whether
\* the name x is bound to what the call returns (x += other, x *= n)
Returning(op, res, other, n, rebind) ==
    /\ x # 0
    /\ res.exc = "none" => Len(fls) < MaxLists
    /\ fls' = IF res.exc = "none" THEN Append(fls, Object(res.elems)) ELSE fls
    /\ x' = IF res.exc = "none" /\ rebind THEN Len(fls) + 1 ELSE x
    /\ lr' = ListCall(op, res.exc, x, other, n, IF res.exc = "none" THEN Len(fls) + 1 ELSE 0)

\* x.union(other)
Union(other) == Returning("union", union(fls[x].elems, other), other, 0, FALSE)
\* x + other
Add(other) == Returning("__add__", union(fls[x].elems, other), other, 0, FALSE)
\* x += other
IAdd(other) == Returning("__iadd__", union(fls[x].elems, other), other, 0, TRUE)
\* x * n
Mul(n) == Returning("__mul__", FrozenList_mul(fls[x].elems, n), NoOperand, n, FALSE)
\* x *= n
IMul(n) == Returning("__imul__", FrozenList_mul(fls[x].elems, n), NoOperand, n, TRUE)

\* a call of a disabled method on x
Disabled(method, v) ==
    /\ x # 0
    /\ LET res == FrozenList_disabled(fls[x].elems, method, v)
       IN  /\ fls' = [fls EXCEPT ![x].elems = res.elems]
           /\ lr' = ListCall(method, res.exc, x, NoOperand, v, 0)
    /\ UNCHANGED x

(***************************************************************************)
(* FrozenNDArray.  store holds the buffers; arrs is the heap of array      *)
(* objects, each with its class, the buffer it views and the object        *)
(* values() copied it from (0: none); ar records the last call.            *)
(***************************************************************************)
Cells == {0, 1}
Indexes == {1, 2}
\* the list an array is first built from
ArrayData == {<<0, 1>>}
\* copy=True, copy=False, copy=None
CopyFlags == {"True", "False", "None"}
\* the methods FrozenNDArray disables
DisabledArrayMethods ==
    {"__setitem__", "__setslice__", "__delitem__", "__delslice__", "put", "itemset", "fill"}

Array(cls, buf, of) == [cls |-> cls, buf |-> buf, of |-> of]
ArrCall(op, exc, self, out) == [op |-> op, exc |-> exc, self |-> self, out |-> out]
NoArrCall == ArrCall("none", "none", 0, 0)
\* the elements of array object i
Elements(i) == store[arrs[i].buf]
Frozen == {i \in 1..Len(arrs) : arrs[i].cls = "FrozenNDArray"}

InitArr == store = <<>> /\ arrs = <<>> /\ ar = NoArrCall

\* FrozenNDArray.__new__ on a list: numpy allocates the buffer
NewFromList(data) ==
    /\ Len(arrs) < MaxArrs
    /\ store' = Append(store, data)
    /\ arrs' = Append(arrs, Array("FrozenNDArray", Len(store) + 1, 0))
    /\ ar' = ArrCall("FrozenNDArray", "none", 0, Len(arrs) + 1)

\* whether __new__ copies the array it is given
copies(data, copy) ==
    IF copy = "None" THEN data.cls # "FrozenNDArray" ELSE copy = "True"

\* FrozenNDArray.__new__ on array object i: np.array(data, copy=copy).view(cls)
\* is a view of data's buffer unless it copies
NewFromArray(i, copy) ==
    /\ i \in 1..Len(arrs)
    /\ Len(arrs) < MaxArrs
    /\ IF copies(arrs[i], copy)
       THEN /\ store' = Append(store, Elements(i))
            /\ arrs' = Append(arrs, Array("FrozenNDArray", Len(store) + 1, 0))
       ELSE /\ store' = store
            /\ arrs' = Append(arrs, Array("FrozenNDArray", arrs[i].buf, 0))
    /\ ar' = ArrCall("FrozenNDArray", "none", i, Len(arrs) + 1)

\* FrozenNDArray._disabled: raises and writes nothing
FrozenNDArray_disabled(buf, method, k, v) == [exc |-> "TypeError", buf |-> buf]
\* numpy.ndarray.__setitem__(k, v)
ndarray_setitem(buf, method, k, v) == [exc |-> "none", buf |-> [buf EXCEPT ![k] = v]]

\* a call of a disabled method on the frozen array i
ArrDisabled(i, method, k, v) ==
    /\ i \in Frozen
    /\ LET res == FrozenNDArray_disabled(Elements(i), method, k, v)
       IN  /\ store' = [store EXCEPT ![arrs[i].buf] = res.buf]
           /\ ar' = ArrCall(method, res.exc, i, 0)
    /\ UNCHANGED arrs

\* FrozenNDArray._shallow_copy: self.view(), a frozen view of the same buffer
shallow_copy(self) == Array(self.cls, self.buf, 0)
ShallowCopy(i) ==
    /\ i \in Frozen
    /\ Len(arrs) < MaxArrs
    /\ arrs' = Append(arrs, shallow_copy(arrs[i]))
    /\ ar' = ArrCall("_shallow_copy", "none", i, Len(arrs) + 1)
    /\ UNCHANGED store

\* values() without the copy: self.view(np.ndarray)
values_view(i) == [store |-> store, arr |-> Array("ndarray", arrs[i].buf, i)]
\* FrozenNDArray.values: self.view(np.ndarray).copy(), an ndarray of a new
\* buffer with the same elements
values(i) ==
    [store |-> Append(store, Elements(i)), arr |-> Array("ndarray", Len(store) + 1, i)]
Values(i) ==
    /\ i \in Frozen
    /\ Len(arrs) < MaxArrs
    /\ store' = values(i).store
    /\ arrs' = Append(arrs, values(i).arr)
    /\ ar' = ArrCall("values", "none", i, Len(arrs) + 1)

\* v[k] = c on the ndarray i that values() returned
SetItem(i, k, c) ==
    /\ i \in 1..Len(arrs) /\ arrs[i].cls = "ndarray"
    /\ k \in 1..Len(Elements(i))
    /\ LET res == ndarray_setitem(Elements(i), "__setitem__", k, c)
       IN  /\ store' = [store EXCEPT ![arrs[i].buf] = res.buf]
           /\ ar' = ArrCall("ndarray.__setitem__", res.exc, i, 0)
    /\ UNCHANGED arrs

(***************************************************************************)
(* Specifications.                                                         *)
(***************************************************************************)
Init == InitDtype /\ InitList /\ InitArr

\* equality and hashing of the instances bound to a and b
NextEq ==
    \/ \E slot \in Slots, dtype \in EqDtypeInputs, fv \in FillValues :
            Construct(slot, dtype, fv) /\ UNCHANGED <<listVars, arrVars>>
    \/ \E slot \in Slots, other \in Slots :
            EqOp(slot, other) /\ UNCHANGED <<listVars, arrVars>>
    \/ \E slot \in Slots : HashOp(slot) /\ UNCHANGED <<listVars, arrVars>>
SpecEq == Init /\ [][NextEq]_vars

\* construct_from_string on every string of StringInputs
NextParse == \E s \in StringInputs : FromString(s) /\ UNCHANGED <<listVars, arrVars>>
SpecParse == Init /\ [][NextParse]_vars

\* the instance bound to a: built by the constructor, rebuilt from its name,
\* converted by update_dtype
NextDtype ==
    \/ \E dtype \in DtypeInputs, fv \in FillInputs :
            Construct("a", dtype, fv) /\ UNCHANGED <<listVars, arrVars>>
    \/ \E s \in FewStrings : FromString(s) /\ UNCHANGED <<listVars, arrVars>>
    \/ FromName("a") /\ UNCHANGED <<listVars, arrVars>>
    \/ \E dtype \in UpdateInputs :
            UpdateDtype("a", dtype) /\ UNCHANGED <<listVars, arrVars>>
SpecDtype == Init /\ [][NextDtype]_vars

\* the FrozenList operations
NextList ==
    \/ \E data \in ListData : NewFrozenList(data) /\ UNCHANGED <<dtypeVars, arrVars>>
    \/ \E other \in Operands : Union(other) /\ UNCHANGED <<dtypeVars, arrVars>>
    \/ \E other \in Operands : Add(other) /\ UNCHANGED <<dtypeVars, arrVars>>
    \/ \E other \in Operands : IAdd(other) /\ UNCHANGED <<dtypeVars, arrVars>>
    \/ \E n \in Repeats : Mul(n) /\ UNCHANGED <<dtypeVars, arrVars>>
    \/ \E n \in Repeats : IMul(n) /\ UNCHANGED <<dtypeVars, arrVars>>
    \/ \E method \in DisabledMethods, v \in Elems :
            Disabled(method, v) /\ UNCHANGED <<dtypeVars, arrVars>>
SpecList == Init /\ [][NextList]_vars

\* the FrozenNDArray operations
NextArr ==
    \/ \E data \in ArrayData : NewFromList(data) /\ UNCHANGED <<dtypeVars, listVars>>
    \/ \E i \in 1..MaxArrs, copy \in CopyFlags :
            NewFromArray(i, copy) /\ UNCHANGED <<dtypeVars, listVars>>
    \/ \E i \in 1..MaxArrs, method \in DisabledArrayMethods, k \in Indexes, c \in Cells :
            ArrDisabled(i, method, k, c) /\ UNCHANGED <<dtypeVars, listVars>>
    \/ \E i \in 1..MaxArrs : ShallowCopy(i) /\ UNCHANGED <<dtypeVars, listVars>>
    \/ \E i \in 1..MaxArrs : Values(i) /\ UNCHANGED <<dtypeVars, listVars>>
    \/ \E i \in 1..MaxArrs, k \in Indexes, c \in Cells :
            SetItem(i, k, c) /\ UNCHANGED <<dtypeVars, listVars>>
SpecArr == Init /\ [][NextArr]_vars

(***************************************************************************)
(* The claims about SparseDtype.                                           *)
(***************************************************************************)
\* two fill values are of compatible scalar kinds: one is an instance of the
\* other's type
CompatibleKinds(u, v) == isinstance_of_type(u, v) \/ isinstance_of_type(v, u)
\* the documented equality of two instances
DocumentedEq(p, q) ==
    /\ p.subtype = q.subtype
    /\ \/ isna(p.fill_value) /\ isna(q.fill_value)
            /\ CompatibleKinds(p.fill_value, q.fill_value)
       \/ PyEq(p.fill_value, q.fill_value)

\* C1: a == b holds if and only if the subtypes are equal and either both fill
\* values are missing-value sentinels of compatible kinds or the fill values
\* compare equal; so a NaN fill never equals a non-missing fill.
C1_EqualityAsDocumented ==
    r.op = "eq" => r.val = DocumentedEq(Bound(r.slot), Bound(r.other))

\* C2: equal instances hash equal, the hash being that of the tuple
\* (subtype, fill_value, is_na_fill_value).
C2_HashConsistentWithEq ==
    r.op = "eq" /\ r.val
        => SparseDtype_hash(Bound(r.slot)) = SparseDtype_hash(Bound(r.other))

\* C10: equality is symmetric: a == b has the truth value of b == a.
C10_EqSymmetric ==
    r.op = "eq" => r.val = SparseDtype_eq(Bound(r.other), Bound(r.slot))

\* the subtype the constructor gives an understood name
SubtypeOf(n) == SparseDtype_init(NameArg(n), None).d.subtype

\* C4: for "Sparse[<subtype>, <fill_value>]" with a valid subtype name or
\* alias, construct_from_string returns SparseDtype(subtype) exactly when the
\* formatted default fill value of the subtype is the fill-value text, and
\* otherwise fails with the unsupported-fill-value error.
C4_FromStringWithFillValue ==
    \A n \in KnownNames, f \in FillTexts \ {<<>>} :
        r.op = "construct_from_string" /\ r.s = WithFill(n, <<",", " ">>, f)
            => IF FormatScalar(na_value_for_dtype(SubtypeOf(n))) = f
               THEN r.out = Ok(Instance(SubtypeOf(n), na_value_for_dtype(SubtypeOf(n))))
               ELSE /\ ~r.out.ok
                    /\ r.out.msg = "fill_value in the string is not the default"

\* C3: an instance whose fill value is the default of its subtype is rebuilt
\* from its name: construct_from_string(d.name) returns a dtype equal to d.
C3_RoundTrip ==
    r.op = "from_name" /\ a.fill_value = na_value_for_dtype(a.subtype)
        => /\ r.s = name(a)
           /\ r.out.ok
           /\ SparseDtype_eq(r.out.d, a)
           /\ SparseDtype_eq(a, r.out.d)
C3_Witness ==
    /\ r.op = "from_name" /\ r.out.ok
    /\ a = Instance("datetime64[ns]", NaT)
    /\ r.s = C_Sparse \o <<"[">> \o C_datetime64ns \o <<",", " ">> \o C_NaT \o <<"]">>

\* C7: d.update_dtype(new) returns a SparseDtype argument as it is; for a
\* numpy dtype it returns the SparseDtype of that subtype whose fill value is
\* d's fill value converted, SparseDtype(int64, 0) giving
\* SparseDtype(float64, 0.0); it raises and returns no dtype when the fill
\* value has no representation in new, as NaN has none in int64; d is as it
\* was.
UpdateDtypeResult ==
    r.op = "update_dtype" =>
        /\ r.arg.kind = "SparseDtype" => r.out = Ok(r.arg.d)
        /\ r.arg.kind = "name" /\ np_dtype(r.arg.s) # "TypeError" =>
              LET dt == np_dtype(r.arg.s)
                  c == astype_nansafe_item(a.fill_value, dt)
              IN  IF c.ok
                  THEN r.out = Ok(Instance(dt, c.v))
                  ELSE ~r.out.ok /\ r.out.exc = "ValueError" /\ r.out.d = NoDtype
        /\ a = Instance("int64", PyInt(0)) /\ r.arg = NameArg(C_float64)
              => r.out = Ok(Instance("float64", PyFloat(0)))
        /\ a.fill_value = NaN /\ r.arg \in {NameArg(C_int64), NameArg(C_int)}
              => ~r.out.ok
C7_UpdateDtype ==
    /\ []UpdateDtypeResult
    /\ [][r'.op = "update_dtype" => a' = a]_vars
C7_Witness ==
    /\ r.op = "update_dtype"
    /\ a = Instance("int64", PyInt(MaxFill))
    /\ r.arg = SparseArg(Instance("float64", NaN))
    /\ r.out = Ok(Instance("float64", NaN))

\* what holds of every instance
ValidInstance(d) ==
    /\ d.subtype \in NumpyDtypes \ {"str"}
    /\ is_scalar(d.fill_value) /\ d.fill_value # None

\* C8: every instance, from the constructor, construct_from_string or
\* update_dtype, has a numpy subtype that is no string dtype and a scalar fill
\* value; built from a SparseDtype it has that dtype's subtype and, no fill
\* value given, its fill value; with an understood dtype and a fill value that
\* is no scalar the constructor raises ValueError and builds nothing.
C8_ConstructionInvariant ==
    /\ IsBound("a") => ValidInstance(a)
    /\ r.out.ok => ValidInstance(r.out.d)
    /\ r.op = "init" /\ r.out.ok => a = r.out.d
    /\ r.op = "init" /\ r.arg.kind = "SparseDtype" /\ is_scalar(r.fill) =>
          /\ r.out.ok
          /\ r.out.d.subtype = r.arg.d.subtype
          /\ r.out.d.fill_value = IF r.fill = None THEN r.arg.d.fill_value ELSE r.fill
    /\ r.op = "init" /\ ~is_scalar(r.fill) /\ pandas_dtype(r.arg).kind # "TypeError" =>
          ~r.out.ok /\ r.out.exc = "ValueError" /\ r.out.d = NoDtype
C8_Witness ==
    /\ r.op = "init" /\ r.arg.kind = "SparseDtype" /\ r.fill = None
    /\ r.arg.d = Instance("object", PyInt(MaxFill))
    /\ a = Instance("object", PyInt(MaxFill))

(***************************************************************************)
(* The claims about FrozenList.                                            *)
(***************************************************************************)
\* every FrozenList has the elements it was constructed with
ListsAsConstructed == \A i \in 1..Len(fls) : fls[i].elems = fls[i].init

\* C5, as stated: every mutating operation, the repeat-in-place x *= n among
\* them, raises the immutable-container error.
C5_EveryMutatorRaises ==
    lr.op \in DisabledMethods \cup {"__imul__"} => lr.exc = "TypeError"

\* C5, amended: append, insert, remove, sort, pop, extend, item and slice
\* assignment and deletion raise TypeError; x *= n raises nothing and binds x
\* to a new FrozenList of x's elements repeated n times; after any sequence
\* of these calls every FrozenList has the elements it was constructed with.
C5_MutatorsRaiseAndImulRebinds ==
    /\ lr.op \in DisabledMethods => lr.exc = "TypeError" /\ lr.out = 0
    /\ lr.op = "__imul__" =>
          /\ lr.exc = "none"
          /\ lr.out # lr.self /\ x = lr.out
          /\ fls[lr.out].elems = Repeat(fls[lr.self].elems, lr.n)
    /\ ListsAsConstructed
C5_Witness ==
    /\ lr.op = "append" /\ lr.exc = "TypeError"
    /\ Len(fls) = 2 /\ x = 2 /\ lr.self = 2
    /\ fls[1].elems = <<2, 1>> /\ fls[2].elems = <<2, 1, 2, 1>>

\* C6: s.union(other), s + other and s += other return, for every ordered
\* sequence other, a new FrozenList of s's elements followed by other's, and
\* leave s's elements as they were.
C6_UnionOfAnySequence ==
    lr.op \in {"union", "__add__", "__iadd__"} =>
        /\ lr.exc = "none"
        /\ lr.out # lr.self
        /\ fls[lr.out].elems = fls[lr.self].elems \o lr.other.elems
        /\ fls[lr.self].elems = fls[lr.self].init

(***************************************************************************)
(* The claim about FrozenNDArray.                                          *)
(***************************************************************************)
\* a step that is a call of a disabled method raises and writes no buffer
DisabledStep ==
    ar'.op \in DisabledArrayMethods => ar'.exc = "TypeError" /\ store' = store
\* a step that is values() returns an ndarray with the elements of the frozen
\* array, and writes no buffer that exists
ValuesStep ==
    ar'.op = "values" =>
        /\ arrs'[ar'.out].cls = "ndarray"
        /\ store'[arrs'[ar'.out].buf] = Elements(ar'.self)
        /\ \A i \in 1..Len(store) : store'[i] = store[i]
\* a step that writes to an ndarray values() returned leaves the elements of
\* the frozen array it was copied from as they were
SetItemStep ==
    ar'.op = "ndarray.__setitem__" =>
        store'[arrs[arrs[ar'.self].of].buf] = Elements(arrs[ar'.self].of)

\* C9: item and slice assignment and deletion, put, itemset and fill on a
\* FrozenNDArray raise TypeError and leave its elements unchanged; values()
\* returns an independent copy, so that writing to the copy never changes
\* the elements of the frozen array.
C9_FrozenArrayUnchanged == [][DisabledStep /\ ValuesStep /\ SetItemStep]_vars
C9_Witness ==
    /\ ar.op = "ndarray.__setitem__"
    /\ arrs[ar.self].of = 1
    /\ Elements(1) = <<0, 1>>
    /\ Elements(ar.self) = <<1, 1>>

====
